---- MODULE Spec2Model ----
(***************************************************************************)
(* Model of bot.py: the chat-member handler track_channel_member, driven   *)
(* by the dispatcher one update at a time, and the outbound call           *)
(* context.bot.ban_chat_member it awaits.                                  *)
(*                                                                         *)
(* An update is handled in one step up to the point where the handler      *)
(* either returns or suspends on the await of line 91; the result of the   *)
(* awaited call (return or exception) is a second step.                    *)
(***************************************************************************)
EXTENDS Integers, Sequences, FiniteSets, TLC

\* ------------------------------------------------------------------ bounds
\* Number of updates the dispatcher delivers in one behaviour.
MaxEvents == 2

\* ------------------------------------------------------- values and inputs
\* Python None / an optional value that is present.
None == <<>>
Some(x) == <<x>>

\* telegram.constants.ChatMemberStatus members named by the handler; each is
\* the string the Bot API sends.
OWNER == "creator"
ADMINISTRATOR == "administrator"
MEMBER == "member"
LEFT == "left"
KICKED == "kicked"
\* The remaining status of the API that the handler does not name.
RESTRICTED == "restricted"

Statuses == {OWNER, ADMINISTRATOR, MEMBER, RESTRICTED, LEFT, KICKED}

ChatIds == {-1001, -1002}
UserIds == {1, 2}

\* telegram.User as far as the handler reads it (id, is_bot).
Users == [id : UserIds, is_bot : BOOLEAN]

\* telegram.ChatMemberUpdated as far as the handler reads it: chat.id,
\* old_chat_member.status, new_chat_member.status, new_chat_member.user.
\* A member object may be missing (None).
OldMembers == {None} \cup {Some(m) : m \in [status : Statuses]}
NewMembers == {None} \cup {Some(m) : m \in [status : Statuses, user : Users]}
ChatMemberUpdated == [chat_id : ChatIds, old_chat_member : OldMembers, new_chat_member : NewMembers]

\* telegram.Update as far as the handler reads it. The Bot API sets at most
\* one of the optional payload fields of an update.
Updates ==
    {[my_chat_member |-> None, chat_member |-> None]}
    \cup {[my_chat_member |-> Some(r), chat_member |-> None] : r \in ChatMemberUpdated}
    \cup {[my_chat_member |-> None, chat_member |-> Some(r)] : r \in ChatMemberUpdated}

\* Exceptions the handler can meet; both are subclasses of Exception.
AttributeError == "AttributeError"
TelegramError == "TelegramError"
NoException == "NoException"

\* Log records (logger.info / logger.error calls of the handler).
NoUser == 0
NoStatus == "-"
LogRecord(level, msg, user_id, old_status, new_status) ==
    [level |-> level, msg |-> msg, user_id |-> user_id, old |-> old_status, new |-> new_status]

\* ------------------------------------------------------------------- state
VARIABLES
    phase,        \* "import": lines 37-38 have read the environment; "config_error":
                  \* line 41 or 46 raised and the process is gone; "configured":
                  \* the module is loaded; "polling": main runs the dispatcher
    BOT_TOKEN,    \* os.getenv('BOT_TOKEN'): None or a string
    CHANNEL_ID,   \* os.getenv('CHANNEL_ID') (None or a string) until line 44
                  \* replaces it by its integer value; not assigned afterwards
    has_KICKED,   \* whether the ChatMemberStatus enum imported at line 20 has a
                  \* member KICKED (python-telegram-bot names the "kicked" status
                  \* BANNED); fixed for a run, FALSE makes line 85 raise
    pc,           \* "idle": the dispatcher waits for an update; "redeliver": the
                  \* dispatcher holds a next update equal to the last one;
                  \* "await_ban": the handler is suspended at line 91;
                  \* "returned": the handler returned to the dispatcher;
                  \* "propagated": an exception left the handler
    cur,          \* the update of the handler invocation in progress
    bans,         \* ban_chat_member calls issued so far, in order
    emitted,      \* log records written by the invocation in progress, in order
    ban_result,   \* how the awaited call of this invocation ended: "none",
                  \* "returned" or "raised"
    marks,        \* history: Len(bans) at each delivery
    outcomes,     \* history: how each delivered update ended
    qualifying,   \* history: number of delivered subscribed -> unsubscribed events
    repeated,     \* history: this update equals the one delivered before it
    twin,         \* history: this update is the one delivered before it, carried
                  \* in the other attribute (my_chat_member / chat_member)
    prev_emitted, \* history: the records of the invocation before, kept while
                  \* its update is delivered again
    second,       \* a second invocation of the handler, started while the first
                  \* is suspended at line 91: its position, update, records and
                  \* the way its awaited call ended
    alone         \* history: what handling each delivered update to completion
                  \* before the next one starts gives: the ban commands in
                  \* delivery order, and the records of the invocations in
                  \* progress for each way the awaited call can end

vars == <<phase, BOT_TOKEN, CHANNEL_ID, has_KICKED, pc, cur, bans, emitted, ban_result, marks, outcomes,
          qualifying, repeated, twin, prev_emitted, second, alone>>

NoUpdate == [my_chat_member |-> None, chat_member |-> None]

\* No second invocation has been started.
NoInvocation == [pc |-> "idle", cur |-> NoUpdate, emitted |-> <<>>, ban_result |-> "none"]

NoRecords == [none |-> <<>>, returned |-> <<>>, raised |-> <<>>]

\* A credential as the environment gives it (a string of characters).
SomeToken == Some(<<"t", "o", "k">>)

\* The state once startup has succeeded and the dispatcher runs.
Init ==
    /\ phase = "polling"
    /\ BOT_TOKEN = SomeToken
    /\ CHANNEL_ID \in ChatIds
    /\ has_KICKED \in BOOLEAN
    /\ pc = "idle"
    /\ cur = NoUpdate
    /\ bans = <<>>
    /\ emitted = <<>>
    /\ ban_result = "none"
    /\ marks = <<>>
    /\ outcomes = <<>>
    /\ qualifying = 0
    /\ repeated = FALSE
    /\ twin = FALSE
    /\ prev_emitted = <<>>
    /\ second = NoInvocation
    /\ alone = [bans |-> <<>>, logs |-> NoRecords, second_logs |-> NoRecords]

\* ------------------------------------------------- the handler, lines 57-115
\* How a piece of handler code leaves: exit is "return" (the handler is done),
\* "await" (suspended on ban_chat_member) or "raise" (exc is in flight); cmds
\* are the ban_chat_member calls it issued and logs the records it wrote.
Eff(exit, cmds, logs, exc) == [exit |-> exit, cmds |-> cmds, logs |-> logs, exc |-> exc]

\* Variant of result: only update.chat_member is looked at.
result_chat_member_only(update) == update.chat_member

\* line 64: update.my_chat_member or update.chat_member
result(update) ==
    IF update.my_chat_member # None THEN update.my_chat_member ELSE update.chat_member

\* Variant of other_chat: the chat check of lines 70-71 is missing.
other_chat_unchecked(chat_id) == FALSE

\* line 70: result.chat.id != CHANNEL_ID
other_chat(chat_id) == chat_id # CHANNEL_ID

\* lines 73-75: reading .status / .user of a member object that is None raises.
member_access(r) ==
    IF r.old_chat_member = None \/ r.new_chat_member = None
    THEN AttributeError
    ELSE NoException

\* Variant of is_bot: the bot check of lines 78-79 is missing.
is_bot_unchecked(user) == FALSE

\* line 78: user.is_bot
is_bot(user) == user.is_bot

\* Variant of unsubscribed: only the new status is tested.
unsubscribed_any_old(old_status, new_status) ==
    IF has_KICKED
    THEN [exc |-> NoException, value |-> new_status \in {LEFT, KICKED}]
    ELSE [exc |-> AttributeError, value |-> FALSE]

\* lines 83-86: old_status in [MEMBER, ADMINISTRATOR, OWNER] and new_status in
\* [LEFT, KICKED]. The right operand is evaluated only when the left one is
\* true, and evaluating it looks up ChatMemberStatus.KICKED.
unsubscribed(old_status, new_status) ==
    IF old_status \in {MEMBER, ADMINISTRATOR, OWNER}
    THEN IF has_KICKED
         THEN [exc |-> NoException, value |-> new_status \in {LEFT, KICKED}]
         ELSE [exc |-> AttributeError, value |-> FALSE]
    ELSE [exc |-> NoException, value |-> FALSE]

\* lines 91-94: the call context.bot.ban_chat_member(chat_id=CHANNEL_ID, user_id=user.id)
ban_chat_member(user) == [chat_id |-> CHANNEL_ID, user_id |-> user.id]

\* lines 96-100: the record written after the awaited call returned.
log_banned(user, old_status, new_status) ==
    LogRecord("INFO", "banned", user.id, old_status, new_status)

\* Variant of inner_except: the inner try catches nothing.
inner_except_none(exc) == FALSE

\* line 102: except Exception (inner try)
inner_except(exc) == exc \in {AttributeError, TelegramError}

\* lines 103-105: the record written when the awaited call raised.
log_ban_failed(user) ==
    LogRecord("ERROR", "ban_failed", user.id, NoStatus, NoStatus)

\* line 108: elif old_status != new_status
status_changed(old_status, new_status) == old_status # new_status

\* lines 109-112
log_status_change(user, old_status, new_status) ==
    LogRecord("INFO", "status_change", user.id, old_status, new_status)

\* Variant of outer_except: the outer try catches nothing.
outer_except_none(exc) == FALSE

\* line 114: except Exception (outer try)
outer_except(exc) == exc \in {AttributeError, TelegramError}

\* line 115
log_handler_error == LogRecord("ERROR", "handler_error", NoUser, NoStatus, NoStatus)

\* Locals of the handler (lines 73-75), for a payload with both members.
old_status_of(r) == r.old_chat_member[1].status
new_status_of(r) == r.new_chat_member[1].status
user_of(r) == r.new_chat_member[1].user

\* lines 64-112: the body of the outer try, run until it returns, raises or
\* reaches the await of line 91.
try_body(update) ==
    IF result(update) = None THEN Eff("return", <<>>, <<>>, NoException)
    ELSE LET r == result(update)[1] IN
    IF other_chat(r.chat_id) THEN Eff("return", <<>>, <<>>, NoException)
    ELSE IF member_access(r) # NoException THEN Eff("raise", <<>>, <<>>, member_access(r))
    ELSE LET old_status == old_status_of(r)
             new_status == new_status_of(r)
             user == user_of(r)
             u == unsubscribed(old_status, new_status)
         IN
    IF is_bot(user) THEN Eff("return", <<>>, <<>>, NoException)
    ELSE IF u.exc # NoException THEN Eff("raise", <<>>, <<>>, u.exc)
    ELSE IF u.value THEN Eff("await", <<ban_chat_member(user)>>, <<>>, NoException)
    ELSE IF status_changed(old_status, new_status)
         THEN Eff("return", <<>>, <<log_status_change(user, old_status, new_status)>>, NoException)
         ELSE Eff("return", <<>>, <<>>, NoException)

\* lines 114-115: an exception leaving the outer try body is logged and the
\* handler returns; one the clause does not catch leaves the handler.
outer_handler(e) ==
    IF e.exit # "raise" THEN e
    ELSE IF outer_except(e.exc)
         THEN Eff("return", e.cmds, e.logs \o <<log_handler_error>>, NoException)
         ELSE e

\* Variant of after_ban_returned: result is a module-level name, so after the
\* await it is the payload of the invocation that was started last.
after_ban_returned_shared_result(update) ==
    LET r == result(IF second.pc = "await_ban" THEN second.cur ELSE update)[1] IN
    Eff("return", <<>>,
        <<log_banned(user_of(r), old_status_of(r), new_status_of(r))>>, NoException)

\* Variant of after_ban_returned: line 108 is an if, not an elif, so the
\* status-change record is written after the ban record as well.
after_ban_returned_and_change(update) ==
    LET r == result(update)[1] IN
    Eff("return", <<>>,
        <<log_banned(user_of(r), old_status_of(r), new_status_of(r)),
          log_status_change(user_of(r), old_status_of(r), new_status_of(r))>>, NoException)

\* lines 96-100: the awaited call returned.
after_ban_returned(update) ==
    LET r == result(update)[1] IN
    Eff("return", <<>>, <<log_banned(user_of(r), old_status_of(r), new_status_of(r))>>, NoException)

\* Variant of after_ban_raised: the success record of lines 96-100 is written
\* although the call raised (the record sits after the try statement).
after_ban_raised_logs_banned(update, exc) ==
    LET r == result(update)[1] IN
    IF inner_except(exc)
    THEN Eff("return", <<>>,
             <<log_ban_failed(user_of(r)),
               log_banned(user_of(r), old_status_of(r), new_status_of(r))>>, NoException)
    ELSE Eff("raise", <<>>, <<>>, exc)

\* Variant of after_ban_raised: the except clause calls ban_chat_member again.
after_ban_raised_retry(update, exc) ==
    LET r == result(update)[1] IN
    IF inner_except(exc)
    THEN Eff("return", <<ban_chat_member(user_of(r))>>, <<log_ban_failed(user_of(r))>>, NoException)
    ELSE Eff("raise", <<>>, <<>>, exc)

\* lines 102-105: the awaited call raised exc.
after_ban_raised(update, exc) ==
    LET r == result(update)[1] IN
    IF inner_except(exc)
    THEN Eff("return", <<>>, <<log_ban_failed(user_of(r))>>, NoException)
    ELSE Eff("raise", <<>>, <<>>, exc)

\* Handler position after a piece of code left with exit.
pc_after(exit) ==
    CASE exit = "return" -> "returned"
      [] exit = "await" -> "await_ban"
      [] exit = "raise" -> "propagated"

\* How a finished or suspended invocation is recorded in the history.
outcome_of(e, logs) ==
    CASE e.exit = "await" -> "pending"
      [] e.exit = "raise" -> "propagated"
      [] e.exit = "return" /\ logs = <<>> -> "ignored"
      [] OTHER -> logs[Len(logs)].msg

\* The handler run on update from line 57 to its end with nothing in
\* between: the ban commands it issues and the records it leaves when it
\* awaits nothing (none), when the awaited call returns and when it raises.
one_at_a_time(update) ==
    LET e == outer_handler(try_body(update))
        then(rest) == IF e.exit = "await" THEN e.logs \o outer_handler(rest).logs ELSE e.logs
    IN  [cmds |-> e.cmds,
         logs |-> [none |-> e.logs,
                   returned |-> then(after_ban_returned(update)),
                   raised |-> then(after_ban_raised(update, TelegramError))]]

\* ------------------------------------------- the events the claims speak of
Subscribed == {OWNER, ADMINISTRATOR, MEMBER}
Unsubscribed == {LEFT, KICKED}
EventKinds == {"my_chat_member", "chat_member"}

\* The update carries a payload (of either kind).
HasPayload(update) == \E k \in EventKinds : update[k] # None
PayloadOf(update) == update[CHOOSE k \in EventKinds : update[k] # None][1]

\* The update has every field a MembershipEvent is built from.
IsEvent(update) ==
    /\ HasPayload(update)
    /\ PayloadOf(update).old_chat_member # None
    /\ PayloadOf(update).new_chat_member # None

EventOf(update) ==
    [chatId |-> PayloadOf(update).chat_id,
     userId |-> PayloadOf(update).new_chat_member[1].user.id,
     userIsBot |-> PayloadOf(update).new_chat_member[1].user.is_bot,
     oldStatus |-> PayloadOf(update).old_chat_member[1].status,
     newStatus |-> PayloadOf(update).new_chat_member[1].status,
     eventKind |-> CHOOSE k \in EventKinds : update[k] # None]

\* A subscribed -> unsubscribed transition of a non-bot user in the target channel.
Qualifies(ev) ==
    /\ ev.chatId = CHANNEL_ID
    /\ ~ev.userIsBot
    /\ ev.oldStatus \in Subscribed
    /\ ev.newStatus \in Unsubscribed

QualifyingUpdate(update) == IsEvent(update) /\ Qualifies(EventOf(update))

\* ----------------------------------------------------------------- actions
\* The dispatcher delivers an update to track_channel_member, which runs up
\* to its return or to the await of line 91. After "redeliver" the update is
\* the one handled last.
track_channel_member(update) ==
    /\ phase = "polling"
    /\ \/ pc = "idle"
       \/ pc = "redeliver" /\ update = cur
    /\ Len(outcomes) < MaxEvents
    /\ LET e == outer_handler(try_body(update)) IN
        /\ cur' = update
        /\ bans' = bans \o e.cmds
        /\ emitted' = e.logs
        /\ pc' = pc_after(e.exit)
        /\ outcomes' = Append(outcomes, outcome_of(e, e.logs))
    /\ ban_result' = "none"
    /\ marks' = Append(marks, Len(bans))
    /\ qualifying' = IF QualifyingUpdate(update) THEN qualifying + 1 ELSE qualifying
    /\ repeated' = (pc = "redeliver" /\ ~twin)
    /\ alone' = [alone EXCEPT !.bans = @ \o one_at_a_time(update).cmds,
                              !.logs = one_at_a_time(update).logs]
    /\ UNCHANGED <<phase, BOT_TOKEN, CHANNEL_ID, has_KICKED, twin, prev_emitted, second>>

\* The handler resumes after the await of line 91 with effects e.
resume(e, how) ==
    /\ bans' = bans \o e.cmds
    /\ emitted' = emitted \o e.logs
    /\ pc' = pc_after(e.exit)
    /\ outcomes' = [outcomes EXCEPT ![Len(outcomes)] = outcome_of(e, emitted \o e.logs)]
    /\ ban_result' = how
    /\ UNCHANGED <<phase, BOT_TOKEN, CHANNEL_ID, has_KICKED, cur, marks, qualifying, repeated, twin, prev_emitted,
                   second, alone>>

\* The awaited ban_chat_member call returns.
ban_returns ==
    /\ pc = "await_ban"
    /\ resume(outer_handler(after_ban_returned(cur)), "returned")

\* The awaited ban_chat_member call raises (a TelegramError: bad request,
\* missing rights, network error, timeout).
ban_raises ==
    /\ pc = "await_ban"
    /\ resume(outer_handler(after_ban_raised(cur, TelegramError)), "raised")

\* The handler has returned: the dispatcher drops the update and waits for
\* the next one.
next_update ==
    /\ pc = "returned"
    /\ pc' = "idle"
    /\ cur' = NoUpdate
    /\ emitted' = <<>>
    /\ ban_result' = "none"
    /\ twin' = FALSE
    /\ prev_emitted' = <<>>
    /\ alone' = [alone EXCEPT !.logs = NoRecords]
    /\ UNCHANGED <<phase, BOT_TOKEN, CHANNEL_ID, has_KICKED, bans, marks, outcomes, qualifying, repeated,
                   second>>

\* The handler has returned and the next update the dispatcher holds is
\* equal to the one just handled.
next_update_same ==
    /\ pc = "returned"
    /\ Len(outcomes) < MaxEvents
    /\ pc' = "redeliver"
    /\ emitted' = <<>>
    /\ ban_result' = "none"
    /\ twin' = FALSE
    /\ prev_emitted' = emitted
    /\ alone' = [alone EXCEPT !.logs = NoRecords]
    /\ UNCHANGED <<phase, BOT_TOKEN, CHANNEL_ID, has_KICKED, cur, bans, marks, outcomes, qualifying, repeated,
                   second>>

\* The same chat-member change carried in the other attribute of an update.
other_kind(update) ==
    [my_chat_member |-> update.chat_member, chat_member |-> update.my_chat_member]

\* The handler has returned and the next update the dispatcher holds carries
\* the payload just handled in the other attribute: main registers the
\* handler for both kinds (lines 150-155).
next_update_other_kind ==
    /\ pc = "returned"
    /\ Len(outcomes) < MaxEvents
    /\ cur # NoUpdate
    /\ pc' = "redeliver"
    /\ cur' = other_kind(cur)
    /\ emitted' = <<>>
    /\ ban_result' = "none"
    /\ twin' = TRUE
    /\ prev_emitted' = emitted
    /\ alone' = [alone EXCEPT !.logs = NoRecords]
    /\ UNCHANGED <<phase, BOT_TOKEN, CHANNEL_ID, has_KICKED, bans, marks, outcomes, qualifying, repeated,
                   second>>

Next ==
    \/ \E update \in Updates : track_channel_member(update)
    \/ ban_returns
    \/ ban_raises
    \/ next_update
    \/ next_update_same

Spec == Init /\ [][Next]_vars

\* The dispatcher when a change can arrive in both attributes.
NextKinds ==
    \/ Next
    \/ next_update_other_kind

SpecKinds == Init /\ [][NextKinds]_vars

\* ----------------------------------------------- startup, lines 36-46, 134-162
\* Strings are sequences of characters.
Digits == <<"0", "1", "2", "3", "4", "5", "6", "7", "8", "9">>
IsDigit(c) == \E i \in DOMAIN Digits : Digits[i] = c
DigitValue(c) == (CHOOSE i \in DOMAIN Digits : Digits[i] = c) - 1

ValueError == "ValueError"

RECURSIVE lstrip(_)
lstrip(s) == IF s # <<>> /\ Head(s) = " " THEN lstrip(Tail(s)) ELSE s
RECURSIVE rstrip(_)
rstrip(s) == IF s # <<>> /\ s[Len(s)] = " " THEN rstrip(SubSeq(s, 1, Len(s) - 1)) ELSE s
strip(s) == rstrip(lstrip(s))

\* The digit part of an integer literal: digits, with single underscores
\* allowed between two digits.
RECURSIVE digits_ok(_, _)
digits_ok(d, after_digit) ==
    IF d = <<>> THEN after_digit
    ELSE IF IsDigit(Head(d)) THEN digits_ok(Tail(d), TRUE)
    ELSE IF Head(d) = "_" THEN after_digit /\ digits_ok(Tail(d), FALSE)
    ELSE FALSE

RECURSIVE digits_value(_, _)
digits_value(d, acc) ==
    IF d = <<>> THEN acc
    ELSE IF Head(d) = "_" THEN digits_value(Tail(d), acc)
    ELSE digits_value(Tail(d), 10 * acc + DigitValue(Head(d)))

\* line 44: int(CHANNEL_ID) on a string: surrounding whitespace is dropped, one
\* sign is allowed, the rest must be digits; anything else raises ValueError.
int(s) ==
    LET t == strip(s)
        signed == t # <<>> /\ Head(t) \in {"+", "-"}
        d == IF signed THEN Tail(t) ELSE t
    IN  IF digits_ok(d, FALSE)
        THEN [exc |-> NoException,
              value |-> IF signed /\ Head(t) = "-" THEN 0 - digits_value(d, 0) ELSE digits_value(d, 0)]
        ELSE [exc |-> ValueError, value |-> 0]

\* line 40: not X for X None or a string
falsy(x) == x = None \/ x[1] = <<>>

\* Variant of missing_setting: the credential is not tested.
missing_setting_channel_only(token, channel) == falsy(channel)

\* line 40: not BOT_TOKEN or not CHANNEL_ID
missing_setting(token, channel) == falsy(token) \/ falsy(channel)

\* What os.getenv can give at lines 37-38.
Tokens == {None, Some(<<>>), SomeToken}
ChannelTexts ==
    {<<>>,
     <<"-", "1", "0", "0", "1">>,
     <<" ", "-", "1", "0", "0", "2", " ">>,
     <<"+", "7">>,
     <<"1", "_", "0">>,
     <<"a", "b", "c">>,
     <<"1", "0", "x">>,
     <<"1", ".", "5">>,
     <<"-">>,
     <<"1", " ", "0">>,
     <<"_", "1">>,
     <<"1", "_", "_", "0">>,
     <<"-", "-", "1">>,
     <<" ">>}
Channels == {None} \cup {Some(t) : t \in ChannelTexts}

\* The state after lines 37-38.
InitStartup ==
    /\ phase = "import"
    /\ BOT_TOKEN \in Tokens
    /\ CHANNEL_ID \in Channels
    /\ has_KICKED \in BOOLEAN
    /\ pc = "idle"
    /\ cur = NoUpdate
    /\ bans = <<>>
    /\ emitted = <<>>
    /\ ban_result = "none"
    /\ marks = <<>>
    /\ outcomes = <<>>
    /\ qualifying = 0
    /\ repeated = FALSE
    /\ twin = FALSE
    /\ prev_emitted = <<>>
    /\ second = NoInvocation
    /\ alone = [bans |-> <<>>, logs |-> NoRecords, second_logs |-> NoRecords]

\* lines 40-46: the module-level checks and the conversion of CHANNEL_ID.
load_config ==
    /\ phase = "import"
    /\ IF missing_setting(BOT_TOKEN, CHANNEL_ID)
       THEN phase' = "config_error" /\ UNCHANGED CHANNEL_ID
       ELSE IF int(CHANNEL_ID[1]).exc # NoException
            THEN phase' = "config_error" /\ UNCHANGED CHANNEL_ID
            ELSE phase' = "configured" /\ CHANNEL_ID' = int(CHANNEL_ID[1]).value
    /\ UNCHANGED <<BOT_TOKEN, has_KICKED, pc, cur, bans, emitted, ban_result, marks,
                   outcomes, qualifying, repeated, twin, prev_emitted, second, alone>>

\* lines 134-162: main registers the handlers and starts polling.
main ==
    /\ phase = "configured"
    /\ phase' = "polling"
    /\ UNCHANGED <<BOT_TOKEN, CHANNEL_ID, has_KICKED, pc, cur, bans, emitted, ban_result,
                   marks, outcomes, qualifying, repeated, twin, prev_emitted, second, alone>>

NextStartup ==
    \/ load_config
    \/ main
    \/ Next

SpecStartup == InitStartup /\ [][NextStartup]_vars

\* ---------------------------------------------------- concurrent handling
\* The updates delivered while two invocations can be in progress: chat_member
\* updates of either chat and any user, with or without the old member.
ConcStatuses == {MEMBER, RESTRICTED, LEFT}

ConcUpdates ==
    {NoUpdate} \cup
    {u \in Updates :
        /\ u.my_chat_member = None
        /\ u.chat_member # None
        /\ u.chat_member[1].new_chat_member # None
        /\ u.chat_member[1].new_chat_member[1].status \in ConcStatuses
        /\ u.chat_member[1].old_chat_member # None
                => u.chat_member[1].old_chat_member[1].status \in ConcStatuses}

\* While the first invocation is suspended at line 91 the event loop starts
\* the handler on another update; it runs up to its return or to its own
\* await.
track_channel_member_concurrently(update) ==
    /\ phase = "polling"
    /\ pc = "await_ban"
    /\ second.pc = "idle"
    /\ LET e == outer_handler(try_body(update)) IN
        /\ second' = [pc |-> pc_after(e.exit), cur |-> update, emitted |-> e.logs,
                      ban_result |-> "none"]
        /\ bans' = bans \o e.cmds
    /\ alone' = [alone EXCEPT !.bans = @ \o one_at_a_time(update).cmds,
                              !.second_logs = one_at_a_time(update).logs]
    /\ qualifying' = IF QualifyingUpdate(update) THEN qualifying + 1 ELSE qualifying
    /\ UNCHANGED <<phase, BOT_TOKEN, CHANNEL_ID, has_KICKED, pc, cur, emitted, ban_result,
                   marks, outcomes, repeated, twin, prev_emitted>>

\* The second invocation resumes after its await with effects e.
second_resume(e, how) ==
    /\ second.pc = "await_ban"
    /\ second' = [second EXCEPT !.pc = pc_after(e.exit),
                                !.emitted = @ \o e.logs,
                                !.ban_result = how]
    /\ bans' = bans \o e.cmds
    /\ UNCHANGED <<phase, BOT_TOKEN, CHANNEL_ID, has_KICKED, pc, cur, emitted, ban_result,
                   marks, outcomes, qualifying, repeated, twin, prev_emitted, alone>>

second_ban_returns ==
    /\ second.pc = "await_ban"
    /\ second_resume(outer_handler(after_ban_returned(second.cur)), "returned")

second_ban_raises ==
    /\ second.pc = "await_ban"
    /\ second_resume(outer_handler(after_ban_raised(second.cur, TelegramError)), "raised")

NextConcurrent ==
    \/ \E update \in ConcUpdates : track_channel_member(update)
    \/ \E update \in ConcUpdates : track_channel_member_concurrently(update)
    \/ ban_returns
    \/ ban_raises
    \/ second_ban_returns
    \/ second_ban_raises
    \/ next_update

SpecConcurrent == Init /\ [][NextConcurrent]_vars

\* ------------------------------------------------------------- scheduling
\* The event loop resumes the handler once the awaited call has ended, and
\* the dispatcher goes on once the handler has returned. Nothing is assumed
\* about when the transport delivers.
Fairness ==
    /\ WF_vars(ban_returns \/ ban_raises)
    /\ WF_vars(next_update \/ next_update_same)

SpecLive == Init /\ [][Next]_vars /\ Fairness

\* ------------------------------------------------------------------ claims
\* An invocation of the handler is in progress or has just ended; cur is its update.
Started == pc \in {"await_ban", "returned", "propagated"}
\* The invocation has ended.
Ended == pc \in {"returned", "propagated"}
\* The ban commands issued by the invocation of cur.
OwnBans == SubSeq(bans, marks[Len(marks)] + 1, Len(bans))
\* The ban commands issued by the invocation before it.
PrevBans == SubSeq(bans, marks[Len(marks) - 1] + 1, marks[Len(marks)])

\* C1: a subscribed -> unsubscribed event of a non-bot user in the target
\* channel issues exactly one ban command, for CHANNEL_ID and the event's user.
C1_QualifyingEventBans ==
    (Started /\ QualifyingUpdate(cur))
        => OwnBans = <<[chat_id |-> CHANNEL_ID, user_id |-> EventOf(cur).userId]>>

\* C2: every step that issues a ban command is the handling of one update
\* that is a subscribed -> unsubscribed event of a non-bot user in the target
\* channel, and it issues a single command; issued commands are never altered.
C2_OnlyQualifyingEventsBan ==
    [][bans' # bans =>
        /\ pc \in {"idle", "redeliver"}
        /\ QualifyingUpdate(cur')
        /\ Len(bans') = Len(bans) + 1
        /\ SubSeq(bans', 1, Len(bans)) = bans]_vars

C2_Witness == pc = "await_ban" /\ bans # <<>> /\ EventOf(cur).oldStatus = OWNER

\* C3: an event of another chat ends with no ban command and no log record.
C3_ForeignChatIgnored ==
    (Started /\ IsEvent(cur) /\ EventOf(cur).chatId # CHANNEL_ID)
        => /\ pc = "returned"
           /\ OwnBans = <<>>
           /\ emitted = <<>>

C3_Witness ==
    /\ pc = "returned"
    /\ IsEvent(cur)
    /\ EventOf(cur).chatId # CHANNEL_ID
    /\ ~EventOf(cur).userIsBot
    /\ EventOf(cur).oldStatus = MEMBER
    /\ EventOf(cur).newStatus = LEFT
    /\ has_KICKED

\* C4: an event whose user is a bot ends with no ban command and no log
\* record, whatever its chat and statuses.
C4_BotIgnored ==
    (Started /\ IsEvent(cur) /\ EventOf(cur).userIsBot)
        => /\ pc = "returned"
           /\ OwnBans = <<>>
           /\ emitted = <<>>

C4_Witness ==
    /\ pc = "returned"
    /\ IsEvent(cur)
    /\ EventOf(cur).chatId = CHANNEL_ID
    /\ EventOf(cur).userIsBot
    /\ EventOf(cur).oldStatus = MEMBER
    /\ EventOf(cur).newStatus = KICKED
    /\ has_KICKED

\* C5: when the awaited ban call raised, the handler has returned to the
\* dispatcher (no exception left it), it wrote exactly one record, the
\* ban-failure record of the event's user, and the dispatcher can go on to
\* the next update.
C5_BanFailureContained ==
    ban_result = "raised"
        => /\ pc = "returned"
           /\ emitted = <<LogRecord("ERROR", "ban_failed", EventOf(cur).userId, NoStatus, NoStatus)>>
           /\ ENABLED next_update

\* A second update has been handled after one whose ban call raised.
C5_Witness ==
    /\ Len(outcomes) = 2
    /\ outcomes[1] = "ban_failed"
    /\ pc = "returned"
    /\ ban_result = "returned"

\* C6: one invocation issues at most one ban command, whether the call
\* returns or raises, and the number of commands issued never exceeds the
\* number of subscribed -> unsubscribed events delivered.
C6_NoRetry ==
    /\ Len(bans) <= qualifying
    /\ Started => Len(OwnBans) <= 1

C6_Witness ==
    /\ pc = "returned"
    /\ ban_result = "raised"
    /\ Len(OwnBans) = 1
    /\ Len(outcomes) = 2
    /\ Len(bans) = 2

\* C7: a target-channel, non-bot event with different statuses that is not
\* subscribed -> unsubscribed ends with exactly one status-change record
\* (user, old status, new status) and no ban command.
C7_OtherChangeLogged ==
    (Ended /\ IsEvent(cur)
        /\ EventOf(cur).chatId = CHANNEL_ID
        /\ ~EventOf(cur).userIsBot
        /\ EventOf(cur).oldStatus # EventOf(cur).newStatus
        /\ ~(EventOf(cur).oldStatus \in Subscribed /\ EventOf(cur).newStatus \in Unsubscribed))
        => /\ pc = "returned"
           /\ OwnBans = <<>>
           /\ emitted = <<LogRecord("INFO", "status_change", EventOf(cur).userId,
                                    EventOf(cur).oldStatus, EventOf(cur).newStatus)>>

\* C8: an event whose old and new status are equal ends with no ban command
\* and no log record.
C8_NoChangeIgnored ==
    (Ended /\ IsEvent(cur) /\ EventOf(cur).oldStatus = EventOf(cur).newStatus)
        => /\ pc = "returned"
           /\ OwnBans = <<>>
           /\ emitted = <<>>

\* The decision an ended invocation shows: the ban commands it issued and,
\* when it issued none, the kind of record it left.
SameDecisionAsBefore ==
    /\ OwnBans = PrevBans
    /\ OwnBans = <<>> => outcomes[Len(outcomes)] = outcomes[Len(outcomes) - 1]

\* C9: an update equal to the one handled before it gets the same decision,
\* and when it is a subscribed -> unsubscribed event the two invocations
\* issue two ban commands.
C9_Memoryless ==
    (Ended /\ repeated)
        => /\ SameDecisionAsBefore
           /\ QualifyingUpdate(cur) => Len(OwnBans) + Len(PrevBans) = 2

\* C10 as stated: an update without the fields of a MembershipEvent is
\* logged and dropped: a log record, no ban command, the handler returns and
\* the dispatcher can go on.
C10_MalformedLoggedAndDropped ==
    (Ended /\ ~IsEvent(cur))
        => /\ pc = "returned"
           /\ OwnBans = <<>>
           /\ emitted # <<>>
           /\ ENABLED next_update

\* C10 as amended: an update without the fields of a MembershipEvent is
\* dropped: no ban command, the handler returns and the dispatcher can go on.
\* It leaves one handler-error record when it has a payload of the target
\* channel, and no record otherwise.
C10_MalformedDropped ==
    (Ended /\ ~IsEvent(cur))
        => /\ pc = "returned"
           /\ OwnBans = <<>>
           /\ ENABLED next_update
           /\ emitted = IF HasPayload(cur) /\ PayloadOf(cur).chat_id = CHANNEL_ID
                        THEN <<LogRecord("ERROR", "handler_error", NoUser, NoStatus, NoStatus)>>
                        ELSE <<>>

\* A second update has been handled after a payload of the target channel
\* without member data.
C10_Witness ==
    /\ pc = "returned"
    /\ repeated
    /\ HasPayload(cur)
    /\ ~IsEvent(cur)
    /\ PayloadOf(cur).chat_id = CHANNEL_ID
    /\ emitted # <<>>

\* A setting is present: the environment gives a non-empty string.
SettingPresent(x) == x # None /\ x[1] # <<>>

\* The text of an integer: blanks around it at most, an optional sign, then
\* digits, where an underscore may stand between two digits.
IsIntegerText(s) ==
    \E a, b \in DOMAIN s :
        /\ a <= b
        /\ \A i \in DOMAIN s : (i < a \/ i > b) => s[i] = " "
        /\ LET first == IF s[a] \in {"+", "-"} THEN a + 1 ELSE a IN
            /\ first <= b
            /\ IsDigit(s[first])
            /\ IsDigit(s[b])
            /\ \A i \in first..b :
                IsDigit(s[i]) \/ (s[i] = "_" /\ IsDigit(s[i - 1]) /\ IsDigit(s[i + 1]))

\* Evaluated while CHANNEL_ID still holds the text of the environment.
ValidConfig ==
    /\ SettingPresent(BOT_TOKEN)
    /\ SettingPresent(CHANNEL_ID)
    /\ IsIntegerText(CHANNEL_ID[1])

\* C11: startup ends in a configuration error exactly when the credential
\* is missing, the target is missing or the target is not the text of an
\* integer; before polling starts, and for ever after a configuration error,
\* no update is handled and no ban command issued; a loaded configuration
\* goes on to polling.
C11_StartupChecksConfig ==
    [][/\ phase = "import" =>
            IF ValidConfig THEN phase' = "configured" ELSE phase' = "config_error"
       /\ phase = "configured" => phase' = "polling"
       /\ phase = "config_error" => phase' = "config_error"
       /\ phase' # "polling" => (outcomes' = <<>> /\ bans' = <<>> /\ pc' = "idle")]_vars

\* Startup has failed on a target that is present but not a number.
C11_Witness ==
    /\ phase = "config_error"
    /\ BOT_TOKEN = SomeToken
    /\ CHANNEL_ID = Some(<<"1", "0", "x">>)

\* C12: no exception leaves track_channel_member, every invocation that
\* is suspended on the ban call comes to its end, and after every invocation,
\* failed or not, the dispatcher is ready for the next update again.
C12_LoopStaysLive ==
    /\ [](pc # "propagated")
    /\ (pc = "await_ban") ~> (pc = "returned")
    /\ (pc = "returned") ~> (pc \in {"idle", "redeliver"})

\* A ban has been carried out for an update that followed one ending in the
\* handler's outer except.
C12_Witness ==
    /\ Len(outcomes) = 2
    /\ outcomes[1] = "handler_error"
    /\ outcomes[2] = "banned"
    /\ pc = "returned"

\* C15: a chat-member change gets the same outcome whether it arrives as
\* my_chat_member or as chat_member: an update that is the one handled before
\* it, carried in the other attribute, is the same event up to its kind,
\* issues the same ban commands, ends in the same way when no ban was issued,
\* and leaves the same records whenever the two invocations ended alike.
C15_KindIrrelevant ==
    (Ended /\ twin)
        => /\ IsEvent(cur) =>
                [EventOf(cur) EXCEPT !.eventKind = "-"]
                    = [EventOf(other_kind(cur)) EXCEPT !.eventKind = "-"]
           /\ IsEvent(cur) => EventOf(cur).eventKind # EventOf(other_kind(cur)).eventKind
           /\ SameDecisionAsBefore
           /\ outcomes[Len(outcomes)] = outcomes[Len(outcomes) - 1] => emitted = prev_emitted

\* A my_chat_member update was banned after the same change had been banned
\* as chat_member.
C15_Witness ==
    /\ pc = "returned"
    /\ twin
    /\ cur.my_chat_member # None
    /\ outcomes = <<"banned", "banned">>
    /\ Len(bans) = 2

\* The kinds of record a sequence of log records holds.
Msgs(logs) == [i \in DOMAIN logs |-> logs[i].msg]

\* The number of times x occurs in the sequence s.
Count(s, x) == Cardinality({i \in DOMAIN s : s[i] = x})

\* The sequences s and t hold the same elements the same number of times.
SameMultiset(s, t) ==
    /\ Len(s) = Len(t)
    /\ \A i \in DOMAIN s : Count(s, s[i]) = Count(t, s[i])

\* The variables of the first invocation.
first == <<pc, cur, emitted, ban_result>>

\* C14: with two invocations in progress at once, a step of one leaves the
\* variables of the other alone, CHANNEL_ID is never assigned and issued ban
\* commands are only added to; under every interleaving the ban commands
\* issued are, as a multiset, the ones that handling the updates one at a
\* time in delivery order issues, and each invocation that has ended left the
\* records it leaves when handled alone.
C14_ConcurrentAsSequential ==
    /\ [](SameMultiset(bans, alone.bans))
    /\ [](pc = "returned" => emitted = alone.logs[ban_result])
    /\ [](second.pc = "returned" => second.emitted = alone.second_logs[second.ban_result])
    /\ [](pc # "propagated" /\ second.pc # "propagated")
    /\ [][/\ second' # second => first' = first
          /\ first' # first => second' = second
          /\ CHANNEL_ID' = CHANNEL_ID
          /\ SubSeq(bans', 1, Len(bans)) = bans]_vars

\* Two invocations were in progress at once for two different users; the one
\* started second was banned first, then the call of the first one raised.
C14_Witness ==
    /\ pc = "returned"
    /\ ban_result = "raised"
    /\ second.pc = "returned"
    /\ second.ban_result = "returned"
    /\ Len(bans) = 2
    /\ bans[1].user_id # bans[2].user_id
    /\ Msgs(emitted) = <<"ban_failed">>
    /\ Msgs(second.emitted) = <<"banned">>

\* C13: an invocation writes at most one log record, and never two of
\* different classes: one that awaited the ban call ends with exactly one
\* record, the ban record when the call returned and the ban-failure record
\* when it raised; one that issued no ban command ends with nothing, with one
\* status-change record or with one handler-error record; nothing is written
\* while the call is awaited.
C13_OneRecordPerEvent ==
    /\ Started => Len(emitted) <= 1
    /\ pc = "await_ban" => emitted = <<>>
    /\ (Ended /\ ban_result = "returned") => Msgs(emitted) = <<"banned">>
    /\ (Ended /\ ban_result = "raised") => Msgs(emitted) = <<"ban_failed">>
    /\ (Ended /\ ban_result = "none") =>
            /\ OwnBans = <<>>
            /\ Msgs(emitted) \in {<<>>, <<"status_change">>, <<"handler_error">>}

C13_Witness ==
    /\ pc = "returned"
    /\ ban_result = "returned"
    /\ Len(outcomes) = 1
    /\ Msgs(emitted) = <<"banned">>

\* C16: within one invocation the ban command is issued first, then its
\* result is awaited, then the record is written: while the call is awaited
\* the command is out and no record is written; a ban record exists only
\* when the call of this invocation returned, and it names the user of the
\* command; an invocation whose call raised has no ban record.
C16_LogAfterAwait ==
    /\ pc = "await_ban" => (Len(OwnBans) = 1 /\ emitted = <<>> /\ ban_result = "none")
    /\ Started =>
        \A i \in DOMAIN emitted :
            emitted[i].msg = "banned" =>
                /\ ban_result = "returned"
                /\ OwnBans = <<[chat_id |-> CHANNEL_ID, user_id |-> emitted[i].user_id]>>
                /\ emitted[i].user_id = EventOf(cur).userId
    /\ ban_result = "raised" => \A i \in DOMAIN emitted : emitted[i].msg # "banned"

\* The second of two updates ended with a ban record after the first one's
\* call had raised.
C16_Witness ==
    /\ pc = "returned"
    /\ Len(outcomes) = 2
    /\ outcomes[1] = "ban_failed"
    /\ outcomes[2] = "banned"
    /\ repeated

\* ------------------------------------------- where the KICKED lookup succeeds
\* With ChatMemberStatus.KICKED resolving to "kicked", the handler does what
\* C1, C7, C8 and C9 say; an update equal to the previous one gets the same
\* decision in either case.
C1_WhereKickedResolves == has_KICKED => C1_QualifyingEventBans
C7_WhereKickedResolves == has_KICKED => C7_OtherChangeLogged
C8_WhereKickedResolves == has_KICKED => C8_NoChangeIgnored
C9_WhereKickedResolves == has_KICKED => C9_Memoryless
C9_SameDecision == (Ended /\ repeated) => SameDecisionAsBefore

====
